---- MODULE Spec2Model ----
(***************************************************************************)
(* Habit tracker: the daily completion calendar of the DailyTracker        *)
(* component (optimistic toggle with rollback, month navigation, the       *)
(* auto-mark pass and loadHabits), the App component's syncData scheduler, *)
(* SyncService, BrowserNotificationService and the subscriptions of the    *)
(* components.  Each part has its own specification over the shared        *)
(* variables.                                                              *)
(*                                                                         *)
(* Dates are day indices: month m (0 = December 2025, MIN_DATE) holds the  *)
(* dates m*DaysPerMonth .. m*DaysPerMonth + DaysPerMonth - 1, and the      *)
(* order of the indices is the order of the calendar dates.  The backend   *)
(* (app.py) is not part of the sources; its three endpoints are modelled   *)
(* from the specification (ServerUpsert, ServerMarkMissed,                 *)
(* ServerDailyLogs).  A request is served and answered in one step.        *)
(***************************************************************************)
EXTENDS Integers, Sequences, FiniteSets, TLC

\* ------------------------------------------------------------- bounds
NumMonths == 2
DaysPerMonth == 2
MaxInFlight == 2
MaxUserOps == 2

Habits == {"h1"}
Months == 0 .. (NumMonths - 1)
Days == 1 .. DaysPerMonth
Dates == 0 .. (NumMonths * DaysPerMonth - 1)
Tri == {"absent", "true", "false"}
\* the days the tracker may be opened on: the last day of the first month in
\* view or a later day; later days are reached by AdvanceToday
InitDays == {1, 2}

VARIABLES
    today,          \* new Date() at local midnight, as a date index
    currentDate,    \* DailyTracker.currentDate: the month in view
    habits,         \* DailyTracker.habits (ids)
    dailyLogs,      \* DailyTracker.dailyLogs: date -> habit -> value | "norow"
    autoMarkMissed, \* localStorage 'autoMarkMissed': "null" | "true" | "false"
    store,          \* the backend's log entries: date -> habit -> Tri
    rows,           \* the backend's table of log entries, as a set of rows
    currentUser,    \* AuthService.currentUser$: "user" | "null"
    reqs,           \* HTTP requests in flight, with their continuations
    ops,            \* user operations performed so far (bounded)
    ev,             \* what the last tracker step did (observation only)
    now,            \* Date.now() in ms
    lastSyncTime,   \* localStorage 'lastSyncTime': <<>> (null) or decimal digits
    isSyncing,      \* App.isSyncing
    syncStatus,     \* App.syncStatus
    isAuthenticated,\* App.isAuthenticated
    timerDue,       \* when the setInterval of setupRealTimeSync fires next (-1: none)
    syncInFlight,   \* check-auth requests issued by syncData and not yet answered
    bgInFlight,     \* those of them issued by non-manual calls
    ticks,          \* clock advances so far (bounded)
    prevAuto,       \* the previous non-manual syncData call (observation only)
    sev,            \* what the last App step did (observation only)
    svc,            \* the SyncService object
    ntf,            \* the BrowserNotificationService object and its runs
    cmp,            \* the components alive and their subscriptions
    lh              \* DailyTracker.loadHabits with its habit fetches

tvars == <<today, currentDate, habits, dailyLogs, autoMarkMissed, store, rows, currentUser,
           reqs, ops, ev>>
svars == <<now, lastSyncTime, isSyncing, syncStatus, isAuthenticated, timerDue,
           syncInFlight, bgInFlight, ticks, prevAuto, sev>>
xvars == <<svc, ntf, cmp, lh>>
vars == <<tvars, svars, xvars>>

\* ------------------------------------------------------------- helpers
MonthOf(d) == d \div DaysPerMonth
FirstOfMonth(m) == m * DaysPerMonth
B2T(b) == IF b THEN "true" ELSE "false"

NoEv ==
    [op |-> "none", h |-> "-", d |-> -1, val |-> "-", prev |-> "-", res |-> "-",
     net |-> {}, toast |-> "-", notify |-> FALSE, count |-> 0, status |-> 0,
     mm |-> {}, ov |-> FALSE]

\* NoEv.prev of a markOk step (observation only): "again" when the step before
\* was a pass over the same month
\* ov (observation only): this toggle's write was in flight together with
\* another write of the same cell
\* raced (observation only): a toggle's write committed on a cell this pass was
\* about to mark while the pass was in flight
Req(kind, h, d, val, prev, m, cont, cnt) ==
    [kind |-> kind, h |-> h, d |-> d, val |-> val, prev |-> prev, m |-> m,
     cont |-> cont, cnt |-> cnt, raced |-> FALSE, ov |-> FALSE]
ToggleReq(h, d, val, prev) == Req("toggleLog", h, d, val, prev, -1, "-", 0)
LogsReq(m, cont, cnt) == Req("getDailyLogs", "-", -1, "-", "-", m, cont, cnt)
MarkReq(m, origin) == Req("autoMark", "-", -1, "-", "-", m, origin, 0)

Remove(s, i) == [j \in 1 .. (Len(s) - 1) |-> IF j < i THEN s[j] ELSE s[j + 1]]
Kinds(s) == {s[i].kind : i \in 1 .. Len(s)}
\* the (0-based) months the auto-mark POSTs among `s` ask the backend to cover
MarkMonths(s) == {s[i].m - 1 : i \in {j \in 1 .. Len(s) : s[j].kind = "autoMark"}}

\* ------------------------------------------------------------- backend
ServerUpsert(s, h, d, val) == [s EXCEPT ![d][h] = val]

\* variant: a pass that takes every past cell of the month, entry or not
ServerMarkTargetsAllPast(s, m, t) ==
    {c \in Dates \X Habits : MonthOf(c[1]) = m /\ c[1] < t}

\* variant: a pass that takes every past cell not completed, marked or not
ServerMarkTargetsNotCompleted(s, m, t) ==
    {c \in Dates \X Habits : MonthOf(c[1]) = m /\ c[1] < t /\ s[c[1]][c[2]] # "true"}

\* variant: a pass that takes today's cell with the past ones
ServerMarkTargetsThroughToday(s, m, t) ==
    {c \in Dates \X Habits : MonthOf(c[1]) = m /\ c[1] <= t /\ s[c[1]][c[2]] = "absent"}

ServerMarkTargets(s, m, t) ==
    {c \in Dates \X Habits : MonthOf(c[1]) = m /\ c[1] < t /\ s[c[1]][c[2]] = "absent"}

\* variant: a pass that writes false over the whole past of the month
ServerMarkMissedWholeMonth(s, m, t) ==
    [d \in Dates |-> [h \in Habits |->
        IF MonthOf(d) = m /\ d < t THEN "false" ELSE s[d][h]]]

ServerMarkMissed(s, m, t) ==
    [d \in Dates |-> [h \in Habits |->
        IF <<d, h>> \in ServerMarkTargets(s, m, t) THEN "false" ELSE s[d][h]]]

\* the table behind `s`: one row (habit, date, flag) per entry
RowsOf(s) ==
    {[h |-> c[2], d |-> c[1], val |-> s[c[1]][c[2]]] :
        c \in {x \in Dates \X Habits : s[x[1]][x[2]] # "absent"}}

\* variant: the write inserts a row without looking for the pair's row
RowsInsert(R, h, d, val) == R \cup {[h |-> h, d |-> d, val |-> val]}

\* POST /api/logs on the table: the row of (habit, date) is updated, or
\* inserted when there is none
RowsUpsert(R, h, d, val) ==
    {r \in R : ~(r.h = h /\ r.d = d)} \cup {[h |-> h, d |-> d, val |-> val]}

\* POST /api/auto-mark-missed on the table: a false row for every target
RowsMarkMissed(R, s, m, t) ==
    R \cup {[h |-> c[2], d |-> c[1], val |-> "false"] : c \in ServerMarkTargets(s, m, t)}

\* GET /daily-logs?start_date=first of m&end_date=first of m+1: the dates of the
\* inclusive range that bear an entry.
ServerDailyLogs(s, m) ==
    {d \in Dates : /\ FirstOfMonth(m) <= d
                   /\ d <= FirstOfMonth(m + 1)
                   /\ \E h \in Habits : s[d][h] # "absent"}

\* ------------------------------------------------------------- DailyTracker
getDateString(day) == FirstOfMonth(currentDate) + (day - 1)

isDayCompleted(h, day) == dailyLogs[getDateString(day)][h] = "true"
isDayMissed(h, day) == dailyLogs[getDateString(day)][h] = "false"
\* variant: yesterday does not count as past yet
isPastDayBeforeYesterday(day) == getDateString(day) < today - 1

isPastDay(day) == getDateString(day) < today
isToday(day) == getDateString(day) = today

\* variant: only days recorded as missed are locked
isDayDisabledMissedOnly(h, day) ==
    isPastDay(day) /\ ~isToday(day) /\ isDayMissed(h, day)

\* variant: every past day is locked, completed or not
isDayDisabledAllPast(h, day) == isPastDay(day) /\ ~isToday(day)

\* variant: a day recorded as missed stays open, only unrecorded days lock
isDayDisabledUnrecordedOnly(h, day) ==
    isPastDay(day) /\ ~isToday(day) /\ ~isDayCompleted(h, day) /\ ~isDayMissed(h, day)

\* variant: today is locked as well
isDayDisabledThroughToday(h, day) ==
    (isPastDay(day) \/ isToday(day)) /\ ~isDayCompleted(h, day)

isDayDisabled(h, day) ==
    IF isPastDay(day) /\ ~isToday(day)
    THEN IF isDayCompleted(h, day) THEN FALSE ELSE TRUE
    ELSE FALSE

\* variant: the date is looked at before the entry
getDayClassFutureFirst(h, day) ==
    IF ~isPastDay(day) /\ ~isToday(day) THEN "day-cell"
    ELSE IF isDayCompleted(h, day) THEN "day-completed"
    ELSE IF isToday(day) THEN "day-today"
    ELSE "day-missed"

\* variant: a past day shown as missed only when its entry is false
getDayClassMissedOnly(h, day) ==
    IF isDayCompleted(h, day) THEN "day-completed"
    ELSE IF isToday(day) THEN "day-today"
    ELSE IF isPastDay(day) /\ ~isToday(day) /\ isDayMissed(h, day) THEN "day-missed"
    ELSE "day-cell"

getDayClass(h, day) ==
    IF isDayCompleted(h, day) THEN "day-completed"
    ELSE IF isToday(day) THEN "day-today"
    ELSE IF isPastDay(day) /\ ~isToday(day) THEN "day-missed"
    ELSE "day-cell"

\* the title without its date prefix
getDayTitle(h, day) ==
    IF isDayCompleted(h, day) THEN "Completed"
    ELSE IF isDayMissed(h, day) THEN "Marked as missed (locked)"
    ELSE IF isToday(day) THEN "Today - mark when completed"
    ELSE IF isPastDay(day) THEN "Past day"
    ELSE "Future day"

DayStates == {"FUTURE", "TODAY_PENDING", "COMPLETED", "MISSED_LOCKED"}

\* the day state a cell is rendered in: the class getDayClass adds to 'day-cell'
DayState(h, day) ==
    CASE getDayClass(h, day) = "day-completed" -> "COMPLETED"
      [] getDayClass(h, day) = "day-today" -> "TODAY_PENDING"
      [] getDayClass(h, day) = "day-missed" -> "MISSED_LOCKED"
      [] OTHER -> "FUTURE"

\* the day state the tooltip of a cell names
TitleState(h, day) ==
    CASE getDayTitle(h, day) = "Completed" -> "COMPLETED"
      [] getDayTitle(h, day) = "Marked as missed (locked)" -> "MISSED_LOCKED"
      [] getDayTitle(h, day) = "Today - mark when completed" -> "TODAY_PENDING"
      [] getDayTitle(h, day) = "Past day" -> "MISSED_LOCKED"
      [] OTHER -> "FUTURE"

\* variant: the comparison with the minimum month is not strict
canGoPreviousInclusive == FirstOfMonth(currentDate) >= FirstOfMonth(0)

canGoPrevious == FirstOfMonth(currentDate) > FirstOfMonth(0)

\* variant: the stored string tested for truthiness
autoMarkEnabledTruthy(pref) == pref # "null"

\* savedAutoMark === null || savedAutoMark === 'true'
autoMarkEnabled(pref) == pref = "null" \/ pref = "true"

\* loadDailyLogs(): nothing without habits, else one GET for the month in view.
loadDailyLogs(cont, cnt) ==
    IF habits = {} THEN <<>> ELSE <<LogsReq(currentDate, cont, cnt)>>

\* the value of a cell as the code reads it: undefined row or undefined key
Local(d, h) == IF dailyLogs[d][h] = "norow" THEN "absent" ELSE dailyLogs[d][h]

EmptyLogs == [d \in Dates |-> [h \in Habits |-> "norow"]]

\* if (!this.dailyLogs[dateStr]) this.dailyLogs[dateStr] = {}
WithRow(L, d) ==
    [L EXCEPT ![d] = [h \in Habits |-> IF L[d][h] = "norow" THEN "absent" ELSE L[d][h]]]

\* this.dailyLogs[dateStr][habitId] = completed, after the row is made
SetCell(L, d, h, v) == [WithRow(L, d) EXCEPT ![d][h] = v]

\* the revert of the catch block on an existing row: assign the snapshot, or
\* delete the key when the snapshot is undefined
Revert(L, d, h, prev) == [L EXCEPT ![d][h] = prev]

TrackerInit ==
    /\ today \in InitDays
    /\ currentDate = 0
    /\ habits = {}
    /\ dailyLogs = EmptyLogs
    /\ autoMarkMissed \in {"null", "false"}
    /\ store \in {s \in [Dates -> [Habits -> Tri]] :
                    \A d \in Dates, h \in Habits : d > today => s[d][h] = "absent"}
    /\ rows = RowsOf(store)
    /\ currentUser = "user"
    /\ reqs = <<>>
    /\ ops = 0
    /\ ev = NoEv

\* ngOnInit -> loadHabits: the habits arrive, then the first loadDailyLogs.
LoadHabits ==
    /\ currentUser = "user"
    /\ habits = {}
    /\ habits' = Habits
    /\ reqs' = reqs \o <<LogsReq(currentDate, "initLoad", 0)>>
    /\ ev' = [NoEv EXCEPT !.op = "loadHabits", !.net = {"getDailyLogs"}]
    /\ UNCHANGED <<today, currentDate, dailyLogs, autoMarkMissed, store, rows, ops, svars, currentUser, xvars>>

\* toggleHabitLog(habitId, day, completed) up to its first await.
\* the writes in flight for the cell (h, d) noted as overlapped
NoteOverlap(q, h, d) ==
    [j \in 1 .. Len(q) |->
        IF q[j].kind = "toggleLog" /\ q[j].h = h /\ q[j].d = d
        THEN [q[j] EXCEPT !.ov = TRUE] ELSE q[j]]

toggleHabitLog(h, day, completed) ==
    LET d == getDateString(day)
        pending == \E j \in 1 .. Len(reqs) :
                      reqs[j].kind = "toggleLog" /\ reqs[j].h = h /\ reqs[j].d = d
        issued == IF isDayDisabled(h, day)
                  THEN loadDailyLogs("none", 0)
                  ELSE <<[ToggleReq(h, d, B2T(completed), Local(d, h))
                             EXCEPT !.ov = pending]>>
    IN  /\ currentUser = "user"
        /\ h \in habits
        /\ ops < MaxUserOps
        /\ Len(reqs) + Len(issued) <= MaxInFlight
        /\ ops' = ops + 1
        /\ reqs' = (IF isDayDisabled(h, day) THEN reqs ELSE NoteOverlap(reqs, h, d))
                       \o issued
        /\ dailyLogs' = IF isDayDisabled(h, day) THEN dailyLogs
                        ELSE SetCell(dailyLogs, d, h, B2T(completed))
        /\ ev' = [NoEv EXCEPT !.op = "toggle", !.h = h, !.d = d,
                              !.val = B2T(completed), !.prev = Local(d, h),
                              !.res = IF isDayDisabled(h, day) THEN "locked" ELSE "applied",
                              !.net = Kinds(issued),
                              !.toast = IF isDayDisabled(h, day) THEN "locked" ELSE "-"]
        /\ UNCHANGED <<today, currentDate, habits, autoMarkMissed, store, rows, svars, currentUser, xvars>>

\* variant: the notification sent beside the completion toast only
ToggleOkNotifiesCompleted(r) == r.val = "true"

\* this.habitUpdateService.notifyHabitToggled() at the end of the try block
ToggleOkNotifies(r) == TRUE

\* the passes in flight that were about to mark the cell of toggle r
NoteRace(q, r) ==
    [j \in 1 .. Len(q) |->
        IF /\ q[j].kind = "autoMark"
           /\ <<r.d, r.h>> \in ServerMarkTargets(store, q[j].m - 1, today)
        THEN [q[j] EXCEPT !.raced = TRUE] ELSE q[j]]

\* the remote write succeeded: lines 467-473
ToggleOk(i) ==
    LET r == reqs[i] IN
    /\ r.kind = "toggleLog"
    /\ store' = ServerUpsert(store, r.h, r.d, r.val)
    /\ rows' = RowsUpsert(rows, r.h, r.d, r.val)
    /\ reqs' = NoteRace(Remove(reqs, i), r)
    /\ ev' = [NoEv EXCEPT !.op = "toggleOk", !.h = r.h, !.d = r.d, !.val = r.val,
                          !.prev = r.prev, !.res = "committed", !.ov = r.ov,
                          !.toast = IF r.val = "true" /\ r.h \in habits
                                    THEN "completed" ELSE "-",
                          !.notify = ToggleOkNotifies(r)]
    /\ UNCHANGED <<today, currentDate, habits, dailyLogs, autoMarkMissed, ops, svars, currentUser, xvars>>

\* variant: the catch block sends the write again
AfterToggleFailRetry(r) == <<r>>

\* the requests the catch block issues: none, the write is not sent again
AfterToggleFail(r) == <<>>

\* the remote write failed with HTTP status `status`: the catch block, lines 474-490.
\* Without a row for the date, both the assignment and the delete throw a
\* TypeError and the handler ends there.
ToggleFail(i, status) ==
    LET r == reqs[i]
        hasRow == dailyLogs[r.d][r.h] # "norow"
    IN  /\ r.kind = "toggleLog"
        /\ reqs' = Remove(reqs, i) \o AfterToggleFail(r)
        /\ dailyLogs' = IF hasRow THEN Revert(dailyLogs, r.d, r.h, r.prev) ELSE dailyLogs
        /\ ev' = [NoEv EXCEPT !.op = "toggleFail", !.h = r.h, !.d = r.d, !.val = r.val,
                              !.prev = r.prev, !.status = status, !.ov = r.ov,
                              !.net = Kinds(AfterToggleFail(r)),
                              !.res = IF hasRow THEN "rolledBack" ELSE "typeError",
                              !.toast = IF ~hasRow THEN "-"
                                        ELSE IF status = 403 THEN "forbidden"
                                        ELSE "transient"]
        /\ UNCHANGED <<today, currentDate, habits, autoMarkMissed, store, rows, ops, svars, currentUser, xvars>>

\* isPastMonth || isCurrentMonth of autoMarkMissedDaysIfNeeded and previousMonth,
\* for the first day of month m against today
MarkApplies(m) == FirstOfMonth(m) < today \/ m = MonthOf(today)

\* variant: the POST carries the 0-based month
backendMonthZeroBased(m) == m

\* autoMarkMissedDays(year, month): the POST carries month + 1
backendMonth(m) == m + 1

\* autoMarkMissedDaysIfNeeded(showFeedback) up to its first await, called with
\* the preference `pref`: the requests it issues and the toast it shows.  With
\* nothing to wait for it ends at once, and for the initial load (origin "load")
\* the .then of loadHabits reloads the logs.
autoMarkMissedDaysIfNeeded(origin, pref) ==
    IF ~autoMarkEnabled(pref)
    THEN [issue |-> IF origin = "load" THEN loadDailyLogs("none", 0) ELSE <<>>,
          toast |-> "-"]
    ELSE IF MarkApplies(currentDate)
    THEN [issue |-> <<MarkReq(backendMonth(currentDate), origin)>>, toast |-> "-"]
    ELSE [issue |-> IF origin = "load" THEN loadDailyLogs("none", 0) ELSE <<>>,
          toast |-> IF origin = "settings" THEN "noPastDays" ELSE "-"]

\* what follows a finished loadDailyLogs at its call site `cont`
AfterLogs(cont, cnt) ==
    CASE cont = "initLoad" -> autoMarkMissedDaysIfNeeded("load", autoMarkMissed)
      [] cont = "markReloadLoad" -> [issue |-> loadDailyLogs("none", 0), toast |-> "-"]
      [] cont = "markReloadSettings" ->
            [issue |-> <<>>, toast |-> IF cnt > 0 THEN "autoMarked" ELSE "allMarked"]
      [] OTHER -> [issue |-> <<>>, toast |-> "-"]

\* the month of a response's date as the filter of loadDailyLogs computes it
LogDateMonth(d) == MonthOf(d)

\* loadDailyLogs after the GET answered: a fresh cache with the month's rows
LoadedLogs(s, m) ==
    [d \in Dates |-> [h \in Habits |->
        IF d \in ServerDailyLogs(s, m) /\ LogDateMonth(d) = m THEN s[d][h] ELSE "norow"]]

LogsOk(i) ==
    LET r == reqs[i]
        k == AfterLogs(r.cont, r.cnt)
    IN  /\ r.kind = "getDailyLogs"
        /\ dailyLogs' = LoadedLogs(store, r.m)
        /\ reqs' = Remove(reqs, i) \o k.issue
        /\ ev' = [NoEv EXCEPT !.op = "logsOk", !.d = r.m, !.res = r.cont,
                              !.net = Kinds(k.issue), !.mm = MarkMonths(k.issue),
                              !.toast = k.toast, !.count = r.cnt]
        /\ UNCHANGED <<today, currentDate, habits, autoMarkMissed, store, rows, ops, svars, currentUser, xvars>>

\* the GET failed: the catch of loadDailyLogs shows a toast and the caller goes on
LogsFail(i) ==
    LET r == reqs[i]
        k == AfterLogs(r.cont, r.cnt)
    IN  /\ r.kind = "getDailyLogs"
        /\ reqs' = Remove(reqs, i) \o k.issue
        /\ ev' = [NoEv EXCEPT !.op = "logsFail", !.d = r.m, !.res = r.cont,
                              !.net = Kinds(k.issue), !.mm = MarkMonths(k.issue),
                              !.toast = IF k.toast = "-" THEN "loadFailed" ELSE k.toast,
                              !.count = r.cnt]
        /\ UNCHANGED <<today, currentDate, habits, dailyLogs, autoMarkMissed, store, rows, ops, svars, currentUser, xvars>>

\* what follows a successful POST /auto-mark-missed with marked_count = cnt
AfterMark(origin, cnt) ==
    CASE origin = "load" ->
            IF cnt > 0 THEN loadDailyLogs("markReloadLoad", cnt)
            ELSE loadDailyLogs("none", 0)
      [] origin = "settings" -> loadDailyLogs("markReloadSettings", cnt)
      [] OTHER -> loadDailyLogs("none", 0)

MarkOk(i) ==
    LET r == reqs[i]
        cnt == Cardinality(ServerMarkTargets(store, r.m - 1, today))
        issued == AfterMark(r.cont, cnt)
    IN  /\ r.kind = "autoMark"
        /\ store' = ServerMarkMissed(store, r.m - 1, today)
        /\ rows' = RowsMarkMissed(rows, store, r.m - 1, today)
        /\ reqs' = Remove(reqs, i) \o issued
        /\ ev' = [NoEv EXCEPT !.op = "markOk", !.d = r.m - 1, !.res = r.cont,
                              !.val = IF r.raced THEN "raced" ELSE "-",
                              !.prev = IF ev.op = "markOk" /\ ev.d = r.m - 1
                                       THEN "again" ELSE "-",
                              !.net = Kinds(issued), !.count = cnt]
        /\ UNCHANGED <<today, currentDate, habits, dailyLogs, autoMarkMissed, ops, svars, currentUser, xvars>>

\* variant: the catch posts the pass again
AfterMarkFailRetry(origin) == <<MarkReq(backendMonth(currentDate), origin)>>

\* what follows a failed POST /auto-mark-missed: autoMarkMissedDaysIfNeeded
\* swallows the error (a toast with feedback), so loadHabits' .then still
\* reloads; previousMonth's .catch ignores it
AfterMarkFail(origin) == IF origin = "load" THEN loadDailyLogs("none", 0) ELSE <<>>

MarkFail(i) ==
    LET r == reqs[i]
        issued == AfterMarkFail(r.cont)
    IN  /\ r.kind = "autoMark"
        /\ reqs' = Remove(reqs, i) \o issued
        /\ ev' = [NoEv EXCEPT !.op = "markFail", !.d = r.m - 1, !.res = r.cont,
                              !.net = Kinds(issued),
                              !.toast = IF r.cont = "settings" THEN "autoMarkFailed" ELSE "-"]
        /\ UNCHANGED <<today, currentDate, habits, dailyLogs, autoMarkMissed, store, rows, ops, svars, currentUser, xvars>>

previousMonth ==
    LET m == currentDate - 1
        issued == (IF autoMarkEnabled(autoMarkMissed) /\ MarkApplies(m)
                   THEN <<MarkReq(backendMonth(m), "prev")>> ELSE <<>>)
                  \o (IF habits = {} THEN <<>> ELSE <<LogsReq(m, "none", 0)>>)
    IN  /\ currentUser = "user"
        /\ habits # {}
        /\ ops < MaxUserOps
        /\ ops' = ops + 1
        /\ IF ~canGoPrevious
           THEN /\ ev' = [NoEv EXCEPT !.op = "previousMonth", !.res = "refused",
                                      !.toast = "cannotGoBack"]
                /\ UNCHANGED <<currentDate, dailyLogs, reqs>>
           ELSE /\ Len(reqs) + Len(issued) <= MaxInFlight
                /\ currentDate' = m
                /\ dailyLogs' = EmptyLogs
                /\ reqs' = reqs \o issued
                /\ ev' = [NoEv EXCEPT !.op = "previousMonth", !.d = m, !.res = "moved",
                                      !.net = Kinds(issued), !.mm = MarkMonths(issued)]
        /\ UNCHANGED <<today, habits, autoMarkMissed, store, rows, svars, currentUser, xvars>>

nextMonth ==
    LET m == currentDate + 1
        issued == IF habits = {} THEN <<>> ELSE <<LogsReq(m, "none", 0)>>
    IN  /\ currentUser = "user"
        /\ habits # {}
        /\ m \in Months
        /\ ops < MaxUserOps
        /\ Len(reqs) + Len(issued) <= MaxInFlight
        /\ ops' = ops + 1
        /\ currentDate' = m
        /\ dailyLogs' = EmptyLogs
        /\ reqs' = reqs \o issued
        /\ ev' = [NoEv EXCEPT !.op = "nextMonth", !.d = m, !.res = "moved",
                              !.net = Kinds(issued)]
        /\ UNCHANGED <<today, habits, autoMarkMissed, store, rows, svars, currentUser, xvars>>

\* Settings.onAutoMarkChange with the checkbox at `enabled`; the tracker's
\* subscription runs autoMarkMissedDaysIfNeeded(true) on the trigger
onAutoMarkChange(enabled) ==
    LET k == IF enabled THEN autoMarkMissedDaysIfNeeded("settings", B2T(enabled))
             ELSE [issue |-> <<>>, toast |-> "-"]
    IN  /\ currentUser = "user"
        /\ habits # {}
        /\ ops < MaxUserOps
        /\ Len(reqs) + Len(k.issue) <= MaxInFlight
        /\ ops' = ops + 1
        /\ autoMarkMissed' = B2T(enabled)
        /\ reqs' = reqs \o k.issue
        /\ ev' = [NoEv EXCEPT !.op = "onAutoMarkChange", !.val = B2T(enabled),
                              !.net = Kinds(k.issue), !.mm = MarkMonths(k.issue),
                              !.toast = k.toast]
        /\ UNCHANGED <<today, currentDate, habits, dailyLogs, store, rows, svars, currentUser, xvars>>

\* null arrives on currentUser$ while the tracker is open (the session
\* expired, or a check-auth failed): the router leaves the tracker, the
\* requests in flight are not cancelled
SessionLost ==
    /\ currentUser = "user"
    /\ currentUser' = "null"
    /\ ev' = [NoEv EXCEPT !.op = "sessionLost"]
    /\ UNCHANGED <<today, currentDate, habits, dailyLogs, autoMarkMissed, store, rows, reqs,
                   ops, svars, xvars>>

\* midnight passes
AdvanceToday ==
    /\ today + 1 \in Dates
    /\ ops < MaxUserOps
    /\ ops' = ops + 1
    /\ today' = today + 1
    /\ ev' = [NoEv EXCEPT !.op = "advanceToday"]
    /\ UNCHANGED <<currentDate, habits, dailyLogs, autoMarkMissed, store, rows, reqs, svars, currentUser, xvars>>

\* ------------------------------------------------------------- App (sync)
DebounceMs == 10000
VisibilityMs == 300000
SyncIntervalMs == 300000
MaxTicks == 3
MaxSyncInFlight == 2
\* the clock advances by one of these
Steps == {1, 9999, 300000}

\* Date.now().toString(): the decimal digits
RECURSIVE toString(_)
toString(n) == IF n < 10 THEN <<n>> ELSE toString(n \div 10) \o <<n % 10>>

\* parseInt of a string of decimal digits
RECURSIVE parseInt(_)
parseInt(str) ==
    IF Len(str) = 0 THEN 0
    ELSE 10 * parseInt(SubSeq(str, 1, Len(str) - 1)) + str[Len(str)]

NoSev ==
    [op |-> "none", manual |-> FALSE, issued |-> FALSE, at |-> -1, pending |-> 0,
     src |-> "-", res |-> "-", nav |-> "-"]

\* variant: no debounce, as before it was introduced
DebouncedNever(lastSync, t) == FALSE

\* lastSync && (now - parseInt(lastSync)) < 10000
Debounced(lastSync, t) == Len(lastSync) > 0 /\ (t - parseInt(lastSync)) < DebounceMs

\* whether syncData(manual) gets past its two early returns
syncDataRuns(manual) == ~isSyncing /\ (manual \/ ~Debounced(lastSyncTime, now))

\* the body of syncData(manual): synchronous, checkAuth() is not awaited, so
\* isSyncing is false again when it returns
syncDataFrom(manual, src) ==
    /\ syncDataRuns(manual) => syncInFlight < MaxSyncInFlight
    /\ syncInFlight' = IF syncDataRuns(manual) THEN syncInFlight + 1 ELSE syncInFlight
    /\ bgInFlight' = IF syncDataRuns(manual) /\ ~manual THEN bgInFlight + 1 ELSE bgInFlight
    /\ syncStatus' = IF syncDataRuns(manual) THEN "synced" ELSE syncStatus
    /\ isSyncing' = FALSE
    /\ prevAuto' = IF manual THEN prevAuto
                   ELSE <<prevAuto[2], [at |-> now, issued |-> syncDataRuns(manual)]>>
    /\ sev' = [NoSev EXCEPT !.op = "syncData", !.manual = manual,
                            !.issued = syncDataRuns(manual), !.at = now,
                            !.pending = syncInFlight, !.src = src]

syncDataBody(manual) == syncDataFrom(manual, "direct")

\* a direct call: the sync button and pull-to-refresh (manual), any other caller
syncData(manual) ==
    /\ syncDataBody(manual)
    /\ lastSyncTime' = IF syncDataRuns(manual) THEN toString(now) ELSE lastSyncTime
    /\ UNCHANGED <<now, isAuthenticated, timerDue, ticks, tvars, xvars>>

\* the setInterval callback of setupRealTimeSync
IntervalFires ==
    /\ timerDue >= 0
    /\ now >= timerDue
    /\ timerDue' = now + SyncIntervalMs
    /\ IF ~isSyncing /\ isAuthenticated
       THEN /\ syncDataFrom(FALSE, "interval")
            /\ lastSyncTime' = IF syncDataRuns(FALSE) THEN toString(now) ELSE lastSyncTime
       ELSE /\ sev' = [NoSev EXCEPT !.op = "interval", !.at = now, !.src = "interval"]
            /\ UNCHANGED <<syncInFlight, bgInFlight, syncStatus, isSyncing, prevAuto,
                           lastSyncTime>>
    /\ UNCHANGED <<now, isAuthenticated, ticks, tvars, xvars>>

\* variant: every return to the tab counts as stale
visibilityStaleAlways(lastSync, t) == TRUE

\* !lastSync || (now - parseInt(lastSync)) > 300000
visibilityStale(lastSync, t) ==
    Len(lastSync) = 0 \/ (t - parseInt(lastSync)) > VisibilityMs

\* window:visibilitychange with the document visible
onVisibilityChange ==
    /\ IF ~isSyncing /\ isAuthenticated /\ visibilityStale(lastSyncTime, now)
       THEN /\ syncDataFrom(FALSE, "visibility")
            /\ lastSyncTime' = toString(now)
       ELSE /\ sev' = [NoSev EXCEPT !.op = "visibility", !.at = now, !.src = "visibility"]
            /\ UNCHANGED <<syncInFlight, bgInFlight, syncStatus, isSyncing, prevAuto,
                           lastSyncTime>>
    /\ UNCHANGED <<now, isAuthenticated, timerDue, ticks, tvars, xvars>>

\* a check-auth of syncData is answered; App's subscription to currentUser$ sets
\* isAuthenticated and, on becoming authenticated, restarts the interval
\* The answer is a user ("user"), no user ("nouser") or an HTTP error ("error");
\* the last two both put null on currentUser$, and an authenticated App then
\* goes to /login.
AuthResults == {"user", "nouser", "error"}

AuthAnswer(res) ==
    \E bg \in BOOLEAN :
        /\ IF bg THEN bgInFlight > 0 ELSE syncInFlight - bgInFlight > 0
        /\ syncInFlight' = syncInFlight - 1
        /\ bgInFlight' = IF bg THEN bgInFlight - 1 ELSE bgInFlight
        /\ isAuthenticated' = (res = "user")
        /\ timerDue' = IF res = "user" /\ ~isAuthenticated
                       THEN now + SyncIntervalMs ELSE timerDue
        /\ sev' = [NoSev EXCEPT !.op = "authAnswer", !.at = now, !.manual = ~bg,
                                !.issued = (res = "user"), !.res = res,
                                !.nav = IF res # "user" /\ isAuthenticated
                                        THEN "/login" ELSE "-"]
        /\ UNCHANGED <<now, lastSyncTime, isSyncing, syncStatus, ticks, prevAuto, tvars, xvars>>

\* App.logout: the interval is cleared, GET /logout answers, null arrives on
\* currentUser$ and the router goes to /login
logout ==
    /\ isAuthenticated
    /\ timerDue' = -1
    /\ isAuthenticated' = FALSE
    /\ sev' = [NoSev EXCEPT !.op = "logout", !.at = now, !.nav = "/login"]
    /\ UNCHANGED <<now, lastSyncTime, isSyncing, syncStatus, syncInFlight, bgInFlight,
                   ticks, prevAuto, tvars, xvars>>

\* a user arrives on currentUser$ without a sync: the check-auth of
\* AuthService's constructor is answered, or a login succeeds
UserArrives ==
    /\ ~isAuthenticated
    /\ isAuthenticated' = TRUE
    /\ timerDue' = now + SyncIntervalMs
    /\ sev' = [NoSev EXCEPT !.op = "userArrives", !.at = now]
    /\ UNCHANGED <<now, lastSyncTime, isSyncing, syncStatus, syncInFlight, bgInFlight,
                   ticks, prevAuto, tvars, xvars>>

Tick(dt) ==
    /\ ticks < MaxTicks
    /\ ticks' = ticks + 1
    /\ now' = now + dt
    /\ sev' = [NoSev EXCEPT !.op = "tick", !.at = now + dt]
    /\ UNCHANGED <<lastSyncTime, isSyncing, syncStatus, isAuthenticated, timerDue,
                   syncInFlight, bgInFlight, prevAuto, tvars, xvars>>

NoCall == [at |-> -1, issued |-> FALSE]

SyncInit ==
    /\ now = 0
    /\ lastSyncTime = <<>>
    /\ isSyncing = FALSE
    /\ syncStatus = "synced"
    /\ isAuthenticated = FALSE
    /\ timerDue = -1
    /\ syncInFlight = 0
    /\ bgInFlight = 0
    /\ ticks = 0
    /\ prevAuto = <<NoCall, NoCall>>
    /\ sev = NoSev

\* ------------------------------------------------------------- SyncService
SyncDebounceMs == 2000
MaxChecks == 3
\* the clock advances by one of these between calls of the service
SvcSteps == {1, 1999, 2000}

\* lastSyncTime: the field; checks: the authService.checkAuth() calls made;
\* lastIssue, op, issued (observation only): when a call last issued a check
\* (-1: never), and what the last step was and whether it issued one
SvcIdle ==
    [lastSyncTime |-> 0, checks |-> 0, lastIssue |-> -1, op |-> "none", issued |-> FALSE]

\* variant: a call exactly syncDebounceMs after the last sync is dropped too
svcDebouncedInclusive(last, t) == t - last <= SyncDebounceMs

\* now - this.lastSyncTime < this.syncDebounceMs
svcDebounced(last, t) == t - last < SyncDebounceMs

syncAfterAction ==
    /\ svc.checks < MaxChecks
    /\ svc' = IF svcDebounced(svc.lastSyncTime, now)
              THEN [svc EXCEPT !.op = "syncAfterAction", !.issued = FALSE]
              ELSE [svc EXCEPT !.lastSyncTime = now, !.checks = @ + 1, !.lastIssue = now,
                               !.op = "syncAfterAction", !.issued = TRUE]
    /\ UNCHANGED <<tvars, svars, ntf, cmp, lh>>

forceSync ==
    /\ svc.checks < MaxChecks
    /\ svc' = [svc EXCEPT !.lastSyncTime = now, !.checks = @ + 1, !.lastIssue = now,
                          !.op = "forceSync", !.issued = TRUE]
    /\ UNCHANGED <<tvars, svars, ntf, cmp, lh>>

SvcTick(dt) ==
    /\ ticks < MaxTicks
    /\ ticks' = ticks + 1
    /\ now' = now + dt
    /\ svc' = [svc EXCEPT !.op = "tick", !.issued = FALSE]
    /\ UNCHANGED <<lastSyncTime, isSyncing, syncStatus, isAuthenticated, timerDue,
                   syncInFlight, bgInFlight, prevAuto, sev, tvars, ntf, cmp, lh>>

\* --------------------------------------------- BrowserNotificationService
MaxRuns == 2
MaxStarts == 2
MaxClk == 3
MinutesPerDay == 2
\* the clock counts minutes; the reminder is due in the first minute of a day
NtfDays == 0 .. (MaxClk \div MinutesPerDay)
NtfDay(clk) == clk \div MinutesPerDay
\* currentTime === notificationTime
atNotificationTime(clk) == clk % MinutesPerDay = 0

\* interval: notificationCheckInterval (0: none, else the timer's id);
\* timers: the setInterval timers not cleared; starts: ids handed out;
\* lastNotificationDate (-1: ''); runs: the checkAndSendNotification calls
\* suspended at an await, each with the `today` it computed; sent: the
\* notifications constructed per day; clk: the clock; op (observation only)
NtfIdle ==
    [interval |-> 0, timers |-> {}, starts |-> 0, lastNotificationDate |-> -1,
     runs |-> <<>>, sent |-> [d \in NtfDays |-> 0], clk |-> 0, op |-> "none"]

\* checkAndSendNotification up to its first await, with notifications enabled
\* and permitted: the run waits for the preferences
NewRun == [pc |-> "prefs", day |-> -1]

\* startNotificationScheduler: the old timer is cleared, a new one is set and
\* a check runs at once
startNotificationScheduler ==
    /\ ntf.starts < MaxStarts
    /\ Len(ntf.runs) < MaxRuns
    /\ ntf' = [ntf EXCEPT !.starts = @ + 1,
                          !.interval = ntf.starts + 1,
                          !.timers = (@ \ {ntf.interval}) \cup {ntf.starts + 1},
                          !.runs = Append(@, NewRun),
                          !.op = "start"]
    /\ UNCHANGED <<tvars, svars, svc, cmp, lh>>

stopNotificationScheduler ==
    /\ ntf' = [ntf EXCEPT !.timers = @ \ {ntf.interval}, !.interval = 0, !.op = "stop"]
    /\ UNCHANGED <<tvars, svars, svc, cmp, lh>>

\* a minute passes: every timer that is set fires once and calls
\* checkAndSendNotification
NtfMinute ==
    /\ ntf.clk < MaxClk
    /\ Len(ntf.runs) + Cardinality(ntf.timers) <= MaxRuns
    /\ ntf' = [ntf EXCEPT !.clk = @ + 1,
                          !.runs = @ \o [k \in 1 .. Cardinality(ntf.timers) |-> NewRun],
                          !.op = "minute"]
    /\ UNCHANGED <<tvars, svars, svc, cmp, lh>>

\* getNotificationPreferences answers run i: an error ends the run in the
\* catch; otherwise the time, lastNotificationDate and the frequency decide
PrefsAnswer(i, answer) ==
    LET goesOn == /\ answer = "daily"
                  /\ atNotificationTime(ntf.clk)
                  /\ ntf.lastNotificationDate # NtfDay(ntf.clk)
    IN  /\ i \in 1 .. Len(ntf.runs)
        /\ ntf.runs[i].pc = "prefs"
        /\ ntf' = [ntf EXCEPT !.runs = IF goesOn
                                        THEN [@ EXCEPT ![i] = [pc |-> "habits",
                                                                day |-> NtfDay(ntf.clk)]]
                                        ELSE Remove(@, i),
                              !.op = "prefs"]
        /\ UNCHANGED <<tvars, svars, svc, cmp, lh>>

\* getHabits answers run i: an error or no habit ends the run
HabitsAnswer(i, answer) ==
    /\ i \in 1 .. Len(ntf.runs)
    /\ ntf.runs[i].pc = "habits"
    /\ ntf' = [ntf EXCEPT !.runs = IF answer = "some"
                                    THEN [@ EXCEPT ![i].pc = "logs"]
                                    ELSE Remove(@, i),
                          !.op = "habits"]
    /\ UNCHANGED <<tvars, svars, svc, cmp, lh>>

\* getTodayLogs returns to run i (with the logs, or [] after an error): the
\* notification is constructed and lastNotificationDate is set
LogsAnswer(i) ==
    /\ i \in 1 .. Len(ntf.runs)
    /\ ntf.runs[i].pc = "logs"
    /\ ntf' = [ntf EXCEPT !.sent[NtfDay(ntf.clk)] = @ + 1,
                          !.lastNotificationDate = ntf.runs[i].day,
                          !.runs = Remove(@, i),
                          !.op = "sent"]
    /\ UNCHANGED <<tvars, svars, svc, cmp, lh>>

NextNtf ==
    \/ startNotificationScheduler
    \/ stopNotificationScheduler
    \/ NtfMinute
    \/ \E i \in 1 .. MaxRuns, answer \in {"error", "weekly", "daily"} : PrefsAnswer(i, answer)
    \/ \E i \in 1 .. MaxRuns, answer \in {"error", "none", "some"} : HabitsAnswer(i, answer)
    \/ \E i \in 1 .. MaxRuns : LogsAnswer(i)

\* ------------------------------------------------ DailyTracker.loadHabits
MaxFetches == 3
\* pc: where the running invocation of loadHabits is suspended ("idle": not
\* called yet, "done": returned); auth: authService.isAuthenticated();
\* habits: whether DailyTracker.habits is empty; pend: the requests of the
\* Promise.all not answered; checks: the authService.checkAuth() requests of the
\* catch block in flight; fetches: habit fetches issued so far, counted up to
\* MaxFetches; status, toast, nav (observation only)
LhIdle(a) ==
    [pc |-> "idle", isLoading |-> FALSE, auth |-> a, habits |-> "none", pend |-> {},
     checks |-> 0, fetches |-> 0, status |-> "-", toast |-> "-", nav |-> "-"]

CountFetch(n) == IF n < MaxFetches THEN n + 1 ELSE n

\* loadHabits from its entry to the first await: the return to /login when
\* not authenticated, else the two requests of the Promise.all
loadHabitsEnter(r) ==
    IF ~r.auth
    THEN [r EXCEPT !.pc = "done", !.isLoading = FALSE, !.nav = "/login"]
    ELSE [r EXCEPT !.pc = "first", !.isLoading = TRUE, !.pend = {"habits", "auth"},
                   !.fetches = CountFetch(@)]

\* ngOnInit calls loadHabits
loadHabits ==
    /\ lh.pc = "idle"
    /\ lh' = loadHabitsEnter(lh)
    /\ UNCHANGED <<tvars, svars, svc, ntf, cmp>>

\* an answer to one of the two requests of the Promise.all; their .catch turns
\* an error into [] or null
FirstAnswer(which, some) ==
    /\ lh.pc = "first"
    /\ which \in lh.pend
    /\ lh' = [lh EXCEPT !.pend = @ \ {which},
                        !.habits = IF which = "habits"
                                   THEN (IF some THEN "some" ELSE "none") ELSE @]
    /\ UNCHANGED <<tvars, svars, svc, ntf, cmp>>

\* the Promise.all resolved: the 200 ms wait before the second fetch when no
\* habit came, else loadDailyLogs
AfterFirst ==
    /\ lh.pc = "first"
    /\ lh.pend = {}
    /\ lh' = [lh EXCEPT !.pc = IF lh.habits = "none" THEN "wait200" ELSE "logs"]
    /\ UNCHANGED <<tvars, svars, svc, ntf, cmp>>

\* the 200 ms are over: the second getHabits, this one without a .catch
SecondFetch ==
    /\ lh.pc = "wait200"
    /\ lh' = [lh EXCEPT !.pc = "retry", !.fetches = CountFetch(@)]
    /\ UNCHANGED <<tvars, svars, svc, ntf, cmp>>

\* the catch block of loadHabits for an error with `status`: 401 and 0 start
\* an auth check and wait 100 ms, any other status ends with a toast
RetryFailed(r, status) ==
    IF status \in {"401", "0"}
    THEN [r EXCEPT !.pc = "wait100", !.checks = @ + 1, !.status = status]
    ELSE [r EXCEPT !.pc = "done", !.isLoading = FALSE, !.status = status,
                   !.toast = "loadFailed"]

\* the second getHabits is answered: with habits, with none (loadDailyLogs
\* then returns at once), or with an error
SecondAnswer(answer) ==
    /\ lh.pc = "retry"
    /\ answer \in {"401", "0"} => lh.checks < MaxInFlight
    /\ lh' = CASE answer = "some" -> [lh EXCEPT !.pc = "logs", !.habits = "some"]
               [] answer = "none" -> [lh EXCEPT !.pc = "done", !.isLoading = FALSE]
               [] OTHER -> RetryFailed(lh, answer)
    /\ UNCHANGED <<tvars, svars, svc, ntf, cmp>>

\* the 100 ms of the catch block are over: to /login when the session is
\* gone, else loadHabits is called again, not awaited, and the finally of this
\* invocation clears isLoading
AfterCheck ==
    /\ lh.pc = "wait100"
    /\ lh' = IF ~lh.auth
             THEN [lh EXCEPT !.pc = "done", !.isLoading = FALSE,
                             !.toast = "sessionExpired", !.nav = "/login"]
             ELSE [loadHabitsEnter(lh) EXCEPT !.isLoading = FALSE]
    /\ UNCHANGED <<tvars, svars, svc, ntf, cmp>>

\* a check-auth of the catch block is answered: a user, or null (no session,
\* or an error)
CheckAnswer(user) ==
    /\ lh.checks > 0
    /\ lh' = [lh EXCEPT !.checks = @ - 1, !.auth = user]
    /\ UNCHANGED <<tvars, svars, svc, ntf, cmp>>

\* loadDailyLogs returns (it catches its own errors); the auto-mark runs in
\* the background and loadHabits ends
LoadLogsAnswer ==
    /\ lh.pc = "logs"
    /\ lh' = [lh EXCEPT !.pc = "done", !.isLoading = FALSE]
    /\ UNCHANGED <<tvars, svars, svc, ntf, cmp>>

NextLoad ==
    \/ loadHabits
    \/ \E which \in {"habits", "auth"}, some \in BOOLEAN : FirstAnswer(which, some)
    \/ AfterFirst
    \/ SecondFetch
    \/ \E answer \in {"some", "none", "401", "0", "500"} : SecondAnswer(answer)
    \/ AfterCheck
    \/ \E user \in BOOLEAN : CheckAnswer(user)
    \/ LoadLogsAnswer

\* ------------------------------------------- component subscriptions
MaxMounts == 2
Components == {"App", "Settings", "DailyTracker", "Dashboard"}
Subjects == {"currentUser", "routerEvents", "autoMarkRequested", "habitToggled"}

\* the subjects whose subscribe() calls ngOnInit makes with a handler that
\* stays subscribed (loadFromAuthService of Settings ends itself by take(1))
Subscribes(c) ==
    CASE c = "App" -> {"currentUser", "routerEvents"}
      [] c = "Settings" -> {"currentUser"}
      [] c = "DailyTracker" -> {"autoMarkRequested"}
      [] c = "Dashboard" -> {"habitToggled"}

\* the subscriptions ngOnDestroy unsubscribes; Settings has no ngOnDestroy
\* and keeps no reference to its subscription
Unsubscribes(c) ==
    CASE c = "App" -> {"currentUser", "routerEvents"}
      [] c = "Settings" -> {}
      [] c = "DailyTracker" -> {"autoMarkRequested"}
      [] c = "Dashboard" -> {"habitToggled"}

\* alive: the instance of each component now mounted (0: none); mounts: the
\* instances created so far; subs: the handlers subscribed, each of one
\* instance on one subject; ran: the handlers the last step ran
CmpIdle ==
    [alive |-> [c \in Components |-> 0], mounts |-> [c \in Components |-> 0],
     subs |-> {}, ran |-> {}, op |-> "none"]

SubsOf(c, inst, subjects) == {[comp |-> c, subj |-> j, inst |-> inst] : j \in subjects}

\* Angular mounts component c: ngOnInit subscribes; currentUser$ is a
\* BehaviorSubject and calls the new handler at once with its value
ngOnInit(c) ==
    /\ cmp.alive[c] = 0
    /\ cmp.mounts[c] < MaxMounts
    /\ LET inst == cmp.mounts[c] + 1
           new == SubsOf(c, inst, Subscribes(c))
       IN cmp' = [cmp EXCEPT !.alive[c] = inst, !.mounts[c] = inst,
                             !.subs = @ \cup new,
                             !.ran = {n \in new : n.subj = "currentUser"},
                             !.op = "ngOnInit"]
    /\ UNCHANGED <<tvars, svars, svc, ntf, lh>>

\* Angular destroys component c: ngOnDestroy, where the component has one
ngOnDestroy(c) ==
    /\ cmp.alive[c] # 0
    /\ cmp' = [cmp EXCEPT !.alive[c] = 0,
                          !.subs = @ \ SubsOf(c, cmp.alive[c], Unsubscribes(c)),
                          !.ran = {}, !.op = "ngOnDestroy"]
    /\ UNCHANGED <<tvars, svars, svc, ntf, lh>>

\* subject j emits: every handler subscribed to it runs
Emit(j) ==
    /\ cmp' = [cmp EXCEPT !.ran = {n \in cmp.subs : n.subj = j}, !.op = "emit"]
    /\ UNCHANGED <<tvars, svars, svc, ntf, lh>>

NextCmp ==
    \/ \E c \in Components : ngOnInit(c)
    \/ \E c \in Components : ngOnDestroy(c)
    \/ \E j \in Subjects : Emit(j)

\* the other services and components, not in use
XInit ==
    /\ svc = SvcIdle
    /\ ntf = NtfIdle
    /\ cmp = CmpIdle
    /\ lh = LhIdle(TRUE)

Init == TrackerInit /\ SyncInit /\ XInit

\* the App component alone, beside a tracker that is not opened
InitApp ==
    /\ SyncInit
    /\ XInit
    /\ rows = {}
    /\ currentUser = "null"
    /\ today = 1
    /\ currentDate = 0
    /\ habits = {}
    /\ dailyLogs = EmptyLogs
    /\ autoMarkMissed = "null"
    /\ store = [d \in Dates |-> [h \in Habits |-> "absent"]]
    /\ reqs = <<>>
    /\ ops = 0
    /\ ev = NoEv

\* the tracker not opened
TrackerClosed ==
    /\ today = 1
    /\ currentDate = 0
    /\ habits = {}
    /\ dailyLogs = EmptyLogs
    /\ autoMarkMissed = "null"
    /\ store = [d \in Dates |-> [h \in Habits |-> "absent"]]
    /\ rows = {}
    /\ currentUser = "null"
    /\ reqs = <<>>
    /\ ops = 0
    /\ ev = NoEv

\* the App's fields as constructed, the clock at t
AppIdle(t) ==
    /\ now = t
    /\ lastSyncTime = <<>>
    /\ isSyncing = FALSE
    /\ syncStatus = "synced"
    /\ isAuthenticated = FALSE
    /\ timerDue = -1
    /\ syncInFlight = 0
    /\ bgInFlight = 0
    /\ ticks = 0
    /\ prevAuto = <<NoCall, NoCall>>
    /\ sev = NoSev

\* the SyncService alone; Date.now() is far from the epoch, so that the first
\* call is outside the debounce window of lastSyncTime = 0
InitSvc == TrackerClosed /\ AppIdle(SyncDebounceMs) /\ XInit

NextSvc ==
    \/ syncAfterAction
    \/ forceSync
    \/ \E dt \in SvcSteps : SvcTick(dt)

SpecSvc == InitSvc /\ [][NextSvc]_vars

\* the BrowserNotificationService alone
InitNtf == TrackerClosed /\ AppIdle(0) /\ XInit

SpecNtf == InitNtf /\ [][NextNtf]_vars

\* the components' lifecycles alone
InitCmp == TrackerClosed /\ AppIdle(0) /\ XInit

SpecCmp == InitCmp /\ [][NextCmp]_vars

\* loadHabits alone, called in a session or without one
InitLoad ==
    /\ TrackerClosed /\ AppIdle(0)
    /\ svc = SvcIdle /\ ntf = NtfIdle /\ cmp = CmpIdle
    /\ lh \in {LhIdle(a) : a \in BOOLEAN}

\* Every step of loadHabits is owed: ngOnInit runs, the timers expire and the
\* remote answers every request, with an answer of its choice.
SpecLoad ==
    /\ InitLoad /\ [][NextLoad]_vars
    /\ WF_vars(loadHabits)
    /\ WF_vars(\E which \in {"habits", "auth"}, some \in BOOLEAN : FirstAnswer(which, some))
    /\ WF_vars(AfterFirst)
    /\ WF_vars(SecondFetch)
    /\ WF_vars(\E answer \in {"some", "none", "401", "0", "500"} : SecondAnswer(answer))
    /\ WF_vars(AfterCheck)
    /\ WF_vars(\E user \in BOOLEAN : CheckAnswer(user))
    /\ WF_vars(LoadLogsAnswer)

NextApp ==
    \/ \E manual \in BOOLEAN : syncData(manual)
    \/ IntervalFires
    \/ onVisibilityChange
    \/ \E res \in AuthResults : AuthAnswer(res)
    \/ UserArrives
    \/ logout
    \/ \E dt \in Steps : Tick(dt)

SpecApp == InitApp /\ [][NextApp]_vars

Next ==
    \/ LoadHabits
    \/ \E h \in Habits, day \in Days, completed \in BOOLEAN : toggleHabitLog(h, day, completed)
    \/ previousMonth
    \/ nextMonth
    \/ \E enabled \in BOOLEAN : onAutoMarkChange(enabled)
    \/ SessionLost
    \/ \E i \in 1 .. Len(reqs) : ToggleOk(i)
    \/ \E i \in 1 .. Len(reqs), status \in {403, 500} : ToggleFail(i, status)
    \/ \E i \in 1 .. Len(reqs) : LogsOk(i)
    \/ \E i \in 1 .. Len(reqs) : LogsFail(i)
    \/ \E i \in 1 .. Len(reqs) : MarkOk(i)
    \/ \E i \in 1 .. Len(reqs) : MarkFail(i)
    \/ AdvanceToday

Spec == Init /\ [][Next]_vars

\* The tracker with the steps the client takes by itself: ngOnInit runs and
\* midnight passes.  Answers of the remote and actions of the user are not
\* owed; toggleLog (ApiService) sets no timeout, so no step expires a write.
SpecSilent ==
    Init /\ [][Next]_vars
         /\ WF_vars(LoadHabits) /\ WF_vars(AdvanceToday)

\* ------------------------------------------------------------- properties
ToggleRequestsFor(h, d) ==
    {i \in 1 .. Len(reqs) : reqs[i].kind = "toggleLog" /\ reqs[i].h = h /\ reqs[i].d = d}

C2_PastCompletedRejected ==
    (ev.op = "toggle" /\ ev.d < today /\ ev.prev = "true" /\ ev.val = "false")
        => /\ ev.res = "locked"
           /\ Local(ev.d, ev.h) = "true"
           /\ "toggleLog" \notin ev.net

\* C2, amended: a toggle to incomplete on a date before today whose entry is
\* true is accepted: the local entry becomes false at once and the write for
\* it is issued.
C2_PastCompletedAccepted ==
    (ev.op = "toggle" /\ ev.d < today /\ ev.prev = "true" /\ ev.val = "false")
        => /\ ev.res = "applied"
           /\ Local(ev.d, ev.h) = "false"
           /\ ev.net = {"toggleLog"}
           /\ \E i \in ToggleRequestsFor(ev.h, ev.d) : reqs[i].val = "false"

C2_Witness ==
    /\ ev.op = "toggle" /\ ev.d < today /\ ev.prev = "true" /\ ev.val = "false"
    /\ ev.res = "applied"
    /\ Local(ev.d, ev.h) = "false"

\* C3: when the write of a toggle fails, the local entry of (habit, date) is
\* again exactly what it was before the toggle.
C3_RollbackRestores ==
    ev.op = "toggleFail" => Local(ev.d, ev.h) = ev.prev

\* C4: an auto-mark pass, answered or failed, never turns an entry that holds
\* true on a date before today into anything else, in the backend or in the
\* tracker's cache.
C4_PassKeepsCompleted ==
    [][ev'.op \in {"markOk", "markFail"} =>
          \A d \in Dates, h \in Habits :
              /\ (d < today /\ store[d][h] = "true") => store'[d][h] = "true"
              /\ (d < today /\ Local(d, h) = "true") => dailyLogs'[d][h] = "true"]_vars

C4_Witness ==
    /\ ev.op = "markOk"
    /\ ev.count > 0
    /\ \E d \in Dates, h \in Habits :
          MonthOf(d) = ev.d /\ d < today /\ store[d][h] = "true"

\* C5: a toggle accepted for a (habit, date) pair is the only toggle in flight
\* for that pair: one arriving while another is in flight is rejected.
C5_OneToggleInFlight ==
    (ev.op = "toggle" /\ ev.res = "applied")
        => Cardinality(ToggleRequestsFor(ev.h, ev.d)) = 1

\* C6: no tracker step issues the bulk mark-missed request while the stored
\* preference is 'false'.
C6_DisabledNeverMarks ==
    "autoMark" \in ev.net => autoMarkMissed # "false"

C6_Witness ==
    /\ autoMarkMissed = "false"
    /\ ev.op = "previousMonth" /\ ev.res = "moved"
    /\ MarkApplies(currentDate)
    /\ "autoMark" \notin ev.net

C8_OneSyncInFlight ==
    /\ (sev.op = "syncData" /\ sev.pending > 0) => ~sev.issued
    /\ syncInFlight <= 1

\* C9: an auto-mark pass writes only cells that bear no entry when it writes,
\* and writes false there; every entry present then, a toggle's that committed
\* first included, keeps its value.
C9_PassWritesAbsentOnly ==
    [][ev'.op = "markOk" =>
          \A d \in Dates, h \in Habits :
              IF store[d][h] = "absent"
              THEN store'[d][h] \in {"absent", "false"}
              ELSE store'[d][h] = store[d][h]]_vars

\* a pass answered after a toggle committed on a cell the pass was about to mark
C9_Witness ==
    /\ ev.op = "markOk"
    /\ ev.val = "raced"
    /\ \E d \in Dates, h \in Habits :
          MonthOf(d) = ev.d /\ d < today /\ store[d][h] = "true"

\* C10, as stated: the notification follows every committed toggle and every
\* pass that created entries, and no toggle rejected as locked or rolled back.
C10_NotifiesEveryCommit ==
    /\ ev.op = "toggleOk" => ev.notify
    /\ (ev.op = "markOk" /\ ev.count > 0) => ev.notify
    /\ (ev.op = "toggle" /\ ev.res = "locked") => ~ev.notify
    /\ ev.op = "toggleFail" => ~ev.notify

\* C10, amended: the notification follows every committed toggle and nothing
\* else: no pass, whether it created entries or not, and no toggle rejected as
\* locked or rolled back.
C10_NotifiesToggleCommitOnly ==
    ev.notify <=> ev.op = "toggleOk"

C10_Witness ==
    /\ ev.op = "markOk" /\ ev.count > 0 /\ ~ev.notify
    /\ \E d \in Dates, h \in Habits : MonthOf(d) = ev.d /\ store[d][h] = "false"

\* the day of its month a date falls on
DayOf(d) == d - FirstOfMonth(MonthOf(d)) + 1

\* the toggle writes in flight
ToggleWrites == Cardinality({i \in 1 .. Len(reqs) : reqs[i].kind = "toggleLog"})

\* C11: when the write of a toggle succeeds, with no other toggle of the pair
\* in flight and the date in the month in view, the local entry of (habit, date)
\* is the toggle's desired value.
C11_SuccessKeepsDesired ==
    (ev.op = "toggleOk" /\ MonthOf(ev.d) = currentDate
                        /\ ToggleRequestsFor(ev.h, ev.d) = {})
        => Local(ev.d, ev.h) = ev.val

\* C12: a day toggled to true is resolved COMPLETED at once, and is still
\* resolved COMPLETED when its write has succeeded (the date in view, no other
\* toggle of the pair in flight).
C12_CompletedThroughRoundTrip ==
    /\ (ev.op = "toggle" /\ ev.res = "applied" /\ ev.val = "true")
          => DayState(ev.h, DayOf(ev.d)) = "COMPLETED"
    /\ (ev.op = "toggleOk" /\ ev.val = "true" /\ MonthOf(ev.d) = currentDate
                           /\ ToggleRequestsFor(ev.h, ev.d) = {})
          => DayState(ev.h, DayOf(ev.d)) = "COMPLETED"

\* C13: a failed toggle is reported as forbidden when the backend answered 403
\* and as transient otherwise, and in both cases the local entry is rolled back.
C13_FailureClassified ==
    ev.op = "toggleFail"
        => /\ ev.status = 403 => ev.toast = "forbidden"
           /\ ev.status # 403 => ev.toast = "transient"
           /\ Local(ev.d, ev.h) = ev.prev

\* C14: every failed toggle ends with an error shown to the user; the failure
\* handler does not abort before it.
C14_FailureShown ==
    ev.op = "toggleFail" => (ev.toast # "-" /\ ev.res # "typeError")

\* C15: the number of toggle writes in flight grows only by a toggle call, and
\* by one; a failed write leaves one write fewer and issues no request.
C15_NoRetry ==
    [][/\ ToggleWrites' > ToggleWrites
          => (ev'.op = "toggle" /\ ToggleWrites' = ToggleWrites + 1)
       /\ ev'.op = "toggleFail"
          => (ToggleWrites' = ToggleWrites - 1 /\ Len(reqs') = Len(reqs) - 1)]_vars

C15_Witness ==
    /\ ev.op = "toggleFail"
    /\ ev.res = "rolledBack"
    /\ ToggleRequestsFor(ev.h, ev.d) = {}
    /\ store[ev.d][ev.h] # ev.val

\* C16: a pass answered right after a pass over the same month, with no toggle
\* and no change of today between them, reports zero newly marked days; and
\* after any pass a further pass over its month has nothing to mark and writes
\* nothing.
C16_SecondPassMarksNothing ==
    /\ (ev.op = "markOk" /\ ev.prev = "again") => ev.count = 0
    /\ ev.op = "markOk"
          => /\ ServerMarkTargets(store, ev.d, today) = {}
             /\ ServerMarkMissed(store, ev.d, today) = store

\* the second of two passes in succession, the first of which marked a day
C16_Witness ==
    /\ ev.op = "markOk" /\ ev.prev = "again" /\ ev.count = 0
    /\ \E d \in Dates, h \in Habits :
          MonthOf(d) = ev.d /\ d < today /\ store[d][h] = "false"

\* C17: a pass over a month changes exactly the cells of that month whose date
\* is before today and whose entry is absent, each to false; today's and later
\* cells are left alone, and the count it returns is the number of cells it
\* changed.
C17_PassMarksExactlyPastAbsent ==
    [][ev'.op = "markOk" =>
          /\ \A d \in Dates, h \in Habits :
                IF MonthOf(d) = ev'.d /\ d < today /\ store[d][h] = "absent"
                THEN store'[d][h] = "false"
                ELSE store'[d][h] = store[d][h]
          /\ ev'.count = Cardinality({c \in Dates \X Habits :
                                         store'[c[1]][c[2]] # store[c[1]][c[2]]})]_vars

\* a pass over today's month that marked a past day and left today's absent
C17_Witness ==
    /\ ev.op = "markOk" /\ ev.count > 0
    /\ MonthOf(today) = ev.d
    /\ \E h \in Habits : store[today][h] = "absent"

C19_TodayClassAndTitleAgree ==
    \A h \in Habits, day \in Days :
        getDateString(day) = today
            => /\ DayState(h, day) = IF Local(today, h) = "true"
                                     THEN "COMPLETED" ELSE "TODAY_PENDING"
               /\ TitleState(h, day) = DayState(h, day)

\* C20: a date before today is resolved COMPLETED when its entry is true and
\* MISSED_LOCKED when it is false or absent; every cell resolves to one of the
\* four states, and the locked cells are exactly the MISSED_LOCKED ones.
C20_PastCompletedOrMissed ==
    \A h \in Habits, day \in Days :
        /\ getDateString(day) < today
              => DayState(h, day) = IF Local(getDateString(day), h) = "true"
                                    THEN "COMPLETED" ELSE "MISSED_LOCKED"
        /\ DayState(h, day) \in DayStates
        /\ isDayDisabled(h, day) <=> DayState(h, day) = "MISSED_LOCKED"

C20_Witness ==
    /\ habits # {}
    /\ \E h \in Habits, day \in Days :
          /\ getDateString(day) < today
          /\ Local(getDateString(day), h) = "absent"
          /\ store[getDateString(day)][h] = "absent"
          /\ DayState(h, day) = "MISSED_LOCKED"
    /\ \E h \in Habits, day \in Days :
          getDateString(day) < today /\ DayState(h, day) = "COMPLETED"

\* the steps of local toggles (attempt and resolution), reconciliation passes
\* and advances of today
LocalSteps == {"toggle", "toggleOk", "toggleFail", "markOk", "markFail", "advanceToday"}

\* C21, as stated: once a cell of the month in view is resolved MISSED_LOCKED,
\* no step of a local toggle, a reconciliation pass or an advance of today
\* changes its local entry or the state it is resolved to.
C21_MissedLockedStable ==
    [][\A h \in Habits, day \in Days :
          DayState(h, day) = "MISSED_LOCKED" /\ ev'.op \in LocalSteps
              => /\ DayState(h, day)' = "MISSED_LOCKED"
                 /\ Local(getDateString(day), h)' = Local(getDateString(day), h)]_vars

\* C21, amended: once a cell of the month in view is resolved MISSED_LOCKED, a
\* toggle attempt on it is rejected, and no toggle attempt, successful write,
\* reconciliation pass or advance of today changes its local entry or the
\* state it is resolved to; the rollback of a failed write issued before may.
C21_MissedLockedStableButRollback ==
    [][\A h \in Habits, day \in Days :
          DayState(h, day) = "MISSED_LOCKED" /\ ev'.op \in LocalSteps \ {"toggleFail"}
              => /\ DayState(h, day)' = "MISSED_LOCKED"
                 /\ Local(getDateString(day), h)' = Local(getDateString(day), h)
                 /\ ev'.op = "toggle" /\ ev'.h = h /\ ev'.d = getDateString(day)
                        => ev'.res = "locked" /\ "toggleLog" \notin ev'.net]_vars

\* a toggle attempt on a MISSED_LOCKED cell was just rejected and the cell is
\* MISSED_LOCKED still
C21_Witness ==
    /\ ev.op = "toggle" /\ ev.res = "locked"
    /\ MonthOf(ev.d) = currentDate
    /\ DayState(ev.h, DayOf(ev.d)) = "MISSED_LOCKED"
    /\ Local(ev.d, ev.h) = ev.prev

\* C22: right after today advances, yesterday's cell, if its entry is false or
\* absent, is resolved MISSED_LOCKED and is locked, so that a toggle on it is
\* rejected locally.
C22_AdvancePastLocks ==
    ev.op = "advanceToday" /\ MonthOf(today - 1) = currentDate
        => \A h \in Habits :
              Local(today - 1, h) # "true"
                  => /\ DayState(h, DayOf(today - 1)) = "MISSED_LOCKED"
                     /\ isDayDisabled(h, DayOf(today - 1))

\* today has advanced past a date in view whose entry is false
C22_Witness ==
    /\ ev.op = "advanceToday" /\ MonthOf(today - 1) = currentDate
    /\ \E h \in habits :
          /\ Local(today - 1, h) = "false"
          /\ DayState(h, DayOf(today - 1)) = "MISSED_LOCKED"

\* C23: a toggle on today is never rejected as locked, whatever its direction:
\* it is applied without the locked-day toast, and the cell is then resolved
\* COMPLETED after a toggle to true and TODAY_PENDING after a toggle to false.
C23_TodayNeverLocked ==
    ev.op = "toggle" /\ ev.d = today
        => /\ ev.res = "applied"
           /\ ev.toast # "locked"
           /\ DayState(ev.h, DayOf(ev.d)) = IF ev.val = "true"
                                            THEN "COMPLETED" ELSE "TODAY_PENDING"

\* today was toggled to true and then back to false
C23_Witness ==
    /\ ev.op = "toggle" /\ ev.d = today
    /\ ev.val = "false" /\ ev.prev = "true"
    /\ DayState(ev.h, DayOf(ev.d)) = "TODAY_PENDING"
    /\ Cardinality(ToggleRequestsFor(ev.h, ev.d)) = 2

\* C24: when the request of a background (non-manual) sync fails, the user
\* stays logged in and the router stays on the current route.
C24_BackgroundFailureSilent ==
    [][sev'.op = "authAnswer" /\ ~sev'.manual /\ sev'.res = "error"
          => isAuthenticated' = isAuthenticated /\ sev'.nav = "-"]_vars

\* C25: in an authenticated session the persisted last-sync timestamp changes
\* only at the step at which the request of a sync is answered successfully.
C25_TimestampOnSuccessOnly ==
    [][isAuthenticated /\ lastSyncTime' # lastSyncTime
          => sev'.op = "authAnswer" /\ sev'.res = "user"]_vars

\* C26: a visibility event starts a sync exactly when the user is
\* authenticated, no sync is running and the last-sync timestamp is missing or
\* more than VisibilityMs old; it then issues one background request, and
\* otherwise none.
C26_VisibilityGate ==
    [][sev'.src = "visibility"
          => /\ sev'.issued <=>
                    /\ isAuthenticated /\ ~isSyncing
                    /\ (Len(lastSyncTime) = 0
                           \/ now - parseInt(lastSyncTime) > VisibilityMs)
             /\ syncInFlight' = IF sev'.issued THEN syncInFlight + 1 ELSE syncInFlight
             /\ sev'.issued => ~sev'.manual /\ bgInFlight' = bgInFlight + 1]_vars

\* an authenticated user returned to the tab within VisibilityMs of the last
\* sync, and earlier after it: one event issued nothing, one issued a request
C26_Witness ==
    /\ sev.src = "visibility" /\ ~sev.issued
    /\ isAuthenticated /\ Len(lastSyncTime) > 0
    /\ sev.at - parseInt(lastSyncTime) <= VisibilityMs
    /\ sev.at - parseInt(lastSyncTime) >= DebounceMs

\* C27: right after logout the last-sync timestamp is gone, no sync is marked
\* running and the periodic timer is cleared.
C27_LogoutClearsSyncState ==
    sev.op = "logout" => lastSyncTime = <<>> /\ ~isSyncing /\ timerDue = -1

\* the steps at which the client starts a reconciliation pass while the
\* preference is enabled: the initial load, the settings toggle switched on,
\* and the move to the previous month
ReconciliationTrigger ==
    /\ autoMarkEnabled(autoMarkMissed)
    /\ \/ ev.op = "logsOk" /\ ev.res = "initLoad"
       \/ ev.op = "logsFail" /\ ev.res = "initLoad"
       \/ ev.op = "onAutoMarkChange" /\ ev.val = "true"
       \/ ev.op = "previousMonth" /\ ev.res = "moved"

\* C28, as stated: every reconciliation trigger asks for a pass over the month
\* in view and, when the month in view is not the real current month, for one
\* over the real current month as well.
C28_CoversViewAndCurrent ==
    ReconciliationTrigger
        => /\ currentDate \in ev.mm
           /\ currentDate # MonthOf(today) => MonthOf(today) \in ev.mm

\* C28, amended: every reconciliation trigger asks for a pass over the month in
\* view when that month has begun (it is the real current month or a past one)
\* and for no pass otherwise; it never asks for any other month.
C28_CoversViewOnly ==
    ReconciliationTrigger
        => ev.mm = IF FirstOfMonth(currentDate) <= today THEN {currentDate} ELSE {}

\* the user moved to a past month and the pass was asked for that month only
C28_Witness ==
    /\ ReconciliationTrigger
    /\ ev.op = "previousMonth"
    /\ currentDate # MonthOf(today)
    /\ ev.mm = {currentDate}

C30_ToggleResolves == (ToggleWrites > 0) ~> (ToggleWrites = 0)

\* C38: the month in view is never earlier than the month of MIN_DATE (month
\* 0), and a previousMonth call at that month leaves the view, the log cache
\* and the requests in flight as they were and issues nothing.
C38_NeverBeforeMinDate ==
    [][/\ FirstOfMonth(currentDate') >= FirstOfMonth(0)
       /\ ev'.op = "previousMonth" /\ currentDate = 0
             => /\ currentDate' = currentDate
                /\ dailyLogs' = dailyLogs
                /\ reqs' = reqs
                /\ ev'.net = {} /\ ev'.mm = {}]_vars

\* previousMonth was refused at the minimum month with logs in the cache
C38_Witness ==
    /\ ev.op = "previousMonth" /\ ev.res = "refused"
    /\ currentDate = 0
    /\ \E d \in Dates, h \in Habits : dailyLogs[d][h] \in {"true", "false"}

\* C32: on the initial load, the reload that follows the answered pass is the
\* only one: when it completes, no further fetch of the logs is issued.
C32_OneReloadAfterPass ==
    (ev.op \in {"logsOk", "logsFail"} /\ ev.res = "markReloadLoad")
        => "getDailyLogs" \notin ev.net

\* C37: when a fetch of the logs is answered and no request is left in flight,
\* the cache holds entries of the month in view only, and for that month it
\* holds what the remote store holds.
C37_CacheIsMonthInView ==
    (ev.op = "logsOk" /\ reqs = <<>>)
        => \A d \in Dates, h \in Habits :
              /\ MonthOf(d) # currentDate => dailyLogs[d][h] = "norow"
              /\ MonthOf(d) = currentDate => Local(d, h) = store[d][h]

\* C36: when the last of two overlapping writes of a cell in view is resolved,
\* by success or by failure, the local value of the cell is the value the
\* remote store holds for it.
C36_OverlapConverges ==
    (ev.op \in {"toggleOk", "toggleFail"} /\ ev.ov
        /\ ToggleRequestsFor(ev.h, ev.d) = {}
        /\ MonthOf(ev.d) = currentDate)
        => Local(ev.d, ev.h) = store[ev.d][ev.h]

\* C31: the backend's table holds at most one row per (habit, date), and it
\* is the entry the store reports for the pair; the local cache holds at most
\* one entry per (habit, date).
C31_OneEntryPerPair ==
    \A h \in Habits, d \in Dates :
        /\ Cardinality({r \in rows : r.h = h /\ r.d = d}) <= 1
        /\ \A r \in rows : r.h = h /\ r.d = d => r.val = store[d][h]
        /\ store[d][h] # "absent" => \E r \in rows : r.h = h /\ r.d = d
        /\ Cardinality({v \in Tri \cup {"norow"} : dailyLogs[d][h] = v}) = 1

\* a cell was written twice, to true and to false, and a pass has marked another
C31_Witness ==
    /\ ev.op = "toggleOk" /\ ev.val # ev.prev /\ ev.prev # "absent"
    /\ \E r \in rows : r.h = ev.h /\ r.d = ev.d /\ r.val = ev.val
    /\ Cardinality(rows) >= 2

\* C33: once null has arrived on currentUser$, an auto-mark pass that was in
\* flight commits no write to the backing store.
C33_PassAbortsOnSessionLoss ==
    [][currentUser = "null" /\ ev'.op = "markOk" => store' = store /\ rows' = rows]_vars

\* C35: syncAfterAction issues an auth check exactly when no sync was issued
\* before or at least SyncDebounceMs have passed since the last one issued by
\* either method, and otherwise leaves the service as it was; forceSync always
\* issues exactly one auth check and sets lastSyncTime to the time of the call.
C35_ServiceDebounce ==
    [][/\ svc'.op = "syncAfterAction"
             => /\ svc'.issued <=>
                       (svc.lastIssue < 0 \/ now - svc.lastIssue >= SyncDebounceMs)
                /\ svc'.issued
                       => svc'.checks = svc.checks + 1 /\ svc'.lastSyncTime = now
                /\ ~svc'.issued
                       => svc'.checks = svc.checks /\ svc'.lastSyncTime = svc.lastSyncTime
       /\ svc'.op = "forceSync"
             => svc'.checks = svc.checks + 1 /\ svc'.lastSyncTime = now]_vars

\* a syncAfterAction exactly SyncDebounceMs after the first sync issued the
\* second check
C35_Witness ==
    /\ svc.op = "syncAfterAction" /\ svc.issued
    /\ svc.checks = 2
    /\ ticks = 2
    /\ now = 2 * SyncDebounceMs

\* C40: at most one reminder notification is constructed per calendar day and
\* at most one scheduler timer is set, whatever the interleaving of the runs
\* of checkAndSendNotification.
C40_OneReminderPerDay ==
    /\ \A d \in NtfDays : ntf.sent[d] <= 1
    /\ Cardinality(ntf.timers) <= 1

\* C39: loadHabits eventually finishes for good, with isLoading false: from
\* some point on no invocation is running, whatever the remote answers.
C39_LoadHabitsFinishes == <>[](lh.pc = "done" /\ ~lh.isLoading)

\* C34: no subscription handler runs for a destroyed component: every
\* handler a step runs belongs to the instance of its component that is
\* mounted now (App, Settings, DailyTracker and Dashboard alike).
C34_NoHandlerAfterDestroy ==
    \A n \in cmp.ran : cmp.alive[n.comp] = n.inst
====
